---- MODULE Spec2Model ----
(***************************************************************************)
(* Model of translate() in src/lib/openai.ts: one streaming chat-completion *)
(* request whose SSE response is decoded fragment by fragment, accumulated, *)
(* cleaned of markdown fences, validated as JSON and re-serialized.         *)
(*                                                                         *)
(* Text is a sequence of one-character strings.  The response body in       *)
(* flight is a sequence of lexemes, each a text: "data: ", the text after   *)
(* it, and the line terminator.  The transport may cut the body between any *)
(* two lexemes: inside an event line, between a line and its terminator,    *)
(* or between lines.                                                       *)
(***************************************************************************)
EXTENDS Integers, Sequences, FiniteSets, TLC

(***************************************************************************)
(* Bounds of the model.                                                    *)
(***************************************************************************)
MaxEvents == 2
MaxTextLen == 2

(***************************************************************************)
(* Generic text helpers (String.prototype.startsWith / endsWith / trim).    *)
(***************************************************************************)
Drop(s, n) == SubSeq(s, n + 1, Len(s))

StartsWith(s, p) == Len(s) >= Len(p) /\ SubSeq(s, 1, Len(p)) = p

EndsWith(s, p) == Len(s) >= Len(p) /\ SubSeq(s, Len(s) - Len(p) + 1, Len(s)) = p

\* The least index from i on whose character is in cs, or Len(s) + 1.
IndexOfAny(s, cs, i) ==
    CHOOSE j \in i..(Len(s) + 1) :
        /\ j = Len(s) + 1 \/ s[j] \in cs
        /\ \A m \in i..(j - 1) : s[m] \notin cs

IsWs(c) == c \in {" ", "\n", "\t", "\r"}

RECURSIVE TrimStart(_)
TrimStart(s) == IF s # <<>> /\ IsWs(Head(s)) THEN TrimStart(Tail(s)) ELSE s

RECURSIVE TrimEnd(_)
TrimEnd(s) ==
    IF s # <<>> /\ IsWs(s[Len(s)]) THEN TrimEnd(SubSeq(s, 1, Len(s) - 1)) ELSE s

Trim(s) == TrimEnd(TrimStart(s))

RECURSIVE Flatten(_)
Flatten(ss) == IF ss = <<>> THEN <<>> ELSE Head(ss) \o Flatten(Tail(ss))

RECURSIVE Spaces(_)
Spaces(n) == IF n = 0 THEN <<>> ELSE <<" ">> \o Spaces(n - 1)

(***************************************************************************)
(* cleanJsonString: str.replace(/```(json)?\n/g, '').replace(/```$/g, '')   *)
(* then trim().                                                            *)
(***************************************************************************)
\* The backtick cannot be written in a string of this module: the character
\* "'" stands for it, and occurs in the model's texts with no other meaning.
Backtick == "'"

Fence == <<Backtick, Backtick, Backtick>>

FenceJsonNl == Fence \o <<"j", "s", "o", "n", "\n">>

FenceNl == Fence \o <<"\n">>

\* /```(json)?\n/g : every leftmost non-overlapping match is deleted.
\* The length of the match of /```(json)?\n/ at index i, or 0.
FenceMatchAt(s, i) ==
    IF StartsWith(Drop(s, i - 1), FenceJsonNl) THEN Len(FenceJsonNl)
    ELSE IF StartsWith(Drop(s, i - 1), FenceNl) THEN Len(FenceNl)
    ELSE 0

RECURSIVE RemoveOpeningFences(_)
RemoveOpeningFences(s) ==
    LET i == CHOOSE j \in 1..(Len(s) + 1) :
                 /\ j = Len(s) + 1 \/ FenceMatchAt(s, j) > 0
                 /\ \A m \in 1..(j - 1) : FenceMatchAt(s, m) = 0
    IN  IF i > Len(s) THEN s
        ELSE SubSeq(s, 1, i - 1)
                 \o RemoveOpeningFences(Drop(s, i - 1 + FenceMatchAt(s, i)))

\* /```$/g without the m flag: $ is the end of the input only.
RemoveFinalFence(s) ==
    IF EndsWith(s, Fence) THEN SubSeq(s, 1, Len(s) - Len(Fence)) ELSE s

cleanJsonString(str) == Trim(RemoveFinalFence(RemoveOpeningFences(str)))

(***************************************************************************)
(* JSON.parse on text over the model's alphabet: arrays, objects, string    *)
(* literals (escapes \" \\ \n), unsigned integers, whitespace.  A JSON      *)
(* value is a record [t, s, items, keys]; object keys are not array-index   *)
(* strings, so insertion order is the property order.  The diagnostic is    *)
(* the engine's SyntaxError message (V8 wording).                           *)
(***************************************************************************)
NoValue == [t |-> "none", s |-> <<>>, items |-> <<>>, keys |-> <<>>]

Num(ds) == [t |-> "num", s |-> ds, items |-> <<>>, keys |-> <<>>]

Str(cs) == [t |-> "str", s |-> cs, items |-> <<>>, keys |-> <<>>]

Arr(vs) == [t |-> "arr", s |-> <<>>, items |-> vs, keys |-> <<>>]

Obj(ks, vs) == [t |-> "obj", s |-> <<>>, items |-> vs, keys |-> ks]

Digits == {"0", "1", "2", "3", "4", "5", "6", "7", "8", "9"}

Parsed(v, n) == [ok |-> TRUE, val |-> v, next |-> n, diag |-> ""]

SyntaxError(s, i) ==
    [ok |-> FALSE, val |-> NoValue, next |-> i,
     diag |-> IF i > Len(s) THEN "Unexpected end of JSON input"
              ELSE "Unexpected token " \o s[i] \o " in JSON at position "
                       \o ToString(i - 1)]

SkipWs(s, i) ==
    CHOOSE j \in i..(Len(s) + 1) :
        /\ j = Len(s) + 1 \/ ~IsWs(s[j])
        /\ \A m \in i..(j - 1) : IsWs(s[m])

\* The characters of a string literal, from the one after the opening quote.
\* acc is what precedes i; the characters up to the next quote, backslash or
\* control character are taken as they are.
RECURSIVE ParseStringChars(_, _, _)
ParseStringChars(s, i0, acc0) ==
    LET i == IndexOfAny(s, {"\"", "\\", "\n", "\t", "\r"}, i0)
        acc == acc0 \o SubSeq(s, i0, i - 1)
    IN  IF i > Len(s) THEN SyntaxError(s, i)
        ELSE IF s[i] = "\"" THEN Parsed(Str(acc), i + 1)
        ELSE IF s[i] = "\\"
             THEN IF i + 1 > Len(s) THEN SyntaxError(s, i + 1)
                  ELSE IF s[i + 1] \in {"\"", "\\"}
                       THEN ParseStringChars(s, i + 2, Append(acc, s[i + 1]))
                  ELSE IF s[i + 1] = "n"
                       THEN ParseStringChars(s, i + 2, Append(acc, "\n"))
                  ELSE SyntaxError(s, i + 1)
        ELSE SyntaxError(s, i)

ParseString(s, i) ==
    IF i <= Len(s) /\ s[i] = "\"" THEN ParseStringChars(s, i + 1, <<>>)
    ELSE SyntaxError(s, i)

ParseDigits(s, i) ==
    LET j == CHOOSE n \in i..(Len(s) + 1) :
                 /\ n = Len(s) + 1 \/ s[n] \notin Digits
                 /\ \A m \in i..(n - 1) : s[m] \in Digits
    IN  Parsed(Num(SubSeq(s, i, j - 1)), j)

\* A leading 0 may not be followed by another digit.
ParseNumber(s, i) ==
    IF s[i] = "0"
    THEN IF i + 1 <= Len(s) /\ s[i + 1] \in Digits THEN SyntaxError(s, i + 1)
         ELSE Parsed(Num(<<"0">>), i + 1)
    ELSE ParseDigits(s, i)

\* A repeated key keeps its first position and takes the last value.
RECURSIVE KeyIndex(_, _)
KeyIndex(ks, k) ==
    IF ks = <<>> THEN 0
    ELSE IF ks[Len(ks)] = k THEN Len(ks)
    ELSE KeyIndex(SubSeq(ks, 1, Len(ks) - 1), k)

SetMember(o, k, v) ==
    LET n == KeyIndex(o.keys, k)
    IN  IF n = 0 THEN Obj(Append(o.keys, k), Append(o.items, v))
        ELSE Obj(o.keys, [o.items EXCEPT ![n] = v])

RECURSIVE ParseValue(_, _)
RECURSIVE ParseElements(_, _, _)
RECURSIVE ParseMembers(_, _, _)

ParseElements(s, i, acc) ==
    LET v == ParseValue(s, i)
    IN  IF ~v.ok THEN v
        ELSE LET j == SkipWs(s, v.next)
             IN  IF j > Len(s) THEN SyntaxError(s, j)
                 ELSE IF s[j] = "," THEN ParseElements(s, j + 1, Append(acc, v.val))
                 ELSE IF s[j] = "]" THEN Parsed(Arr(Append(acc, v.val)), j + 1)
                 ELSE SyntaxError(s, j)

ParseMembers(s, i, acc) ==
    LET k == ParseString(s, SkipWs(s, i))
    IN  IF ~k.ok THEN k
        ELSE LET c == SkipWs(s, k.next)
             IN  IF c > Len(s) \/ s[c] # ":" THEN SyntaxError(s, c)
                 ELSE LET v == ParseValue(s, c + 1)
                      IN  IF ~v.ok THEN v
                          ELSE LET j == SkipWs(s, v.next)
                                   o == SetMember(acc, k.val.s, v.val)
                               IN  IF j > Len(s) THEN SyntaxError(s, j)
                                   ELSE IF s[j] = "," THEN ParseMembers(s, j + 1, o)
                                   ELSE IF s[j] = "}" THEN Parsed(o, j + 1)
                                   ELSE SyntaxError(s, j)

ParseValue(s, i0) ==
    LET i == SkipWs(s, i0)
    IN  IF i > Len(s) THEN SyntaxError(s, i)
        ELSE IF s[i] = "["
             THEN LET j == SkipWs(s, i + 1)
                  IN  IF j <= Len(s) /\ s[j] = "]" THEN Parsed(Arr(<<>>), j + 1)
                      ELSE ParseElements(s, j, <<>>)
        ELSE IF s[i] = "{"
             THEN LET j == SkipWs(s, i + 1)
                  IN  IF j <= Len(s) /\ s[j] = "}" THEN Parsed(Obj(<<>>, <<>>), j + 1)
                      ELSE ParseMembers(s, j, Obj(<<>>, <<>>))
        ELSE IF s[i] = "\"" THEN ParseString(s, i)
        ELSE IF s[i] \in Digits THEN ParseNumber(s, i)
        ELSE SyntaxError(s, i)

\* JSON.parse(text): one value, then nothing but whitespace.
JSONParse(s) ==
    LET r == ParseValue(s, 1)
    IN  IF ~r.ok THEN r
        ELSE LET j == SkipWs(s, r.next)
             IN  IF j <= Len(s) THEN SyntaxError(s, j) ELSE r

(***************************************************************************)
(* JSON.stringify(value, null, 2).                                         *)
(***************************************************************************)
RECURSIVE EscapeChars(_)
EscapeChars(cs) ==
    IF cs = <<>> THEN <<>>
    ELSE (IF Head(cs) \in {"\"", "\\"} THEN <<"\\", Head(cs)>>
          ELSE IF Head(cs) = "\n" THEN <<"\\", "n">>
          ELSE <<Head(cs)>>) \o EscapeChars(Tail(cs))

Quote(cs) == <<"\"">> \o EscapeChars(cs) \o <<"\"">>

RECURSIVE Stringify(_, _)
RECURSIVE StringifyItems(_, _, _, _)

\* The members (or elements) from index n on, each on a line of its own.
StringifyItems(v, n, ind, acc) ==
    IF n > Len(v.items) THEN acc
    ELSE StringifyItems(v, n + 1, ind,
             acc \o (IF n > 1 THEN <<",">> ELSE <<>>) \o <<"\n">> \o Spaces(ind)
                 \o (IF v.t = "obj" THEN Quote(v.keys[n]) \o <<":", " ">> ELSE <<>>)
                 \o Stringify(v.items[n], ind))

Stringify(v, ind) ==
    IF v.t = "num" THEN v.s
    ELSE IF v.t = "str" THEN Quote(v.s)
    ELSE LET open == IF v.t = "arr" THEN "[" ELSE "{"
             close == IF v.t = "arr" THEN "]" ELSE "}"
         IN  IF v.items = <<>> THEN <<open, close>>
             ELSE <<open>> \o StringifyItems(v, 1, ind + 2, <<>>)
                      \o <<"\n">> \o Spaces(ind) \o <<close>>

JSONStringify2(v) == Stringify(v, 0)

(***************************************************************************)
(* The event stream the endpoint sends (section 6 of the protocol the code  *)
(* reads): one line per event, "data: " then a JSON object carrying the     *)
(* delta at choices[0].delta.content, or the sentinel [DONE].               *)
(***************************************************************************)
DataPrefix == <<"d", "a", "t", "a", ":", " ">>

DoneSentinel == <<"[", "D", "O", "N", "E", "]">>

\* {"choices":[{"delta":{"content":
EnvelopeOpen ==
    <<"{", "\"", "c", "h", "o", "i", "c", "e", "s", "\"", ":", "[", "{", "\"", "d", "e",
      "l", "t", "a", "\"", ":", "{", "\"", "c", "o", "n", "t", "e", "n", "t", "\"",
      ":">>

\* }}]}
EnvelopeClose == <<"}", "}", "]", "}">>

\* {"choices":[{"delta":{}}]}
NoContentObject ==
    <<"{", "\"", "c", "h", "o", "i", "c", "e", "s", "\"", ":", "[", "{", "\"", "d", "e",
      "l", "t", "a", "\"", ":", "{", "}", "}", "]", "}">>

\* A JSON text with no choices property.
NoChoicesObject == <<"{", "}">>

\* {not json}
NotJson == <<"{", "n", "o", "t", " ", "j", "s", "o", "n", "}">>

LF == <<"\n">>

ObjAB == <<"{", "\"", "a", "\"", ":", "\"", "b", "\"", "}">>

\* The texts a delta may carry.
Deltas ==
    { <<"1">>,
      <<"o", "k">>,
      FenceJsonNl \o ObjAB \o <<"\n">> \o Fence,
      <<" ">> }

DeltaEvent(d) == [k |-> "delta", d |-> d]

OtherEvent(k) == [k |-> k, d |-> <<>>]

Events ==
    {DeltaEvent(d) : d \in Deltas}
        \cup {OtherEvent(k) : k \in {"done", "malformed", "nocontent", "nochoices"}}

\* The text after "data: ".
Payload(e) ==
    CASE e.k = "delta" -> EnvelopeOpen \o Quote(e.d) \o EnvelopeClose
      [] e.k = "done" -> DoneSentinel
      [] e.k = "malformed" -> NotJson
      [] e.k = "nocontent" -> NoContentObject
      [] e.k = "nochoices" -> NoChoicesObject

\* The lexemes of one event line.
EventLine(e) == <<DataPrefix, Payload(e), LF>>

(***************************************************************************)
(* The body of the fragment loop: chunk.split('\n'), then for each line     *)
(* that starts with 'data: ' the delta of JSON.parse(line.slice(6)).        *)
(***************************************************************************)
RECURSIVE SplitLines(_)
SplitLines(chunk) ==
    LET i == IndexOfAny(chunk, {"\n"}, 1)
    IN  IF i > Len(chunk) THEN <<chunk>>
        ELSE <<SubSeq(chunk, 1, i - 1)>> \o SplitLines(Drop(chunk, i))

\* v[key] for a property name that is not an array index.
Member(v, key) ==
    IF v.t = "obj" /\ KeyIndex(v.keys, key) > 0
    THEN v.items[KeyIndex(v.keys, key)]
    ELSE NoValue

\* v[0].
First(v) ==
    IF v.t = "arr" /\ v.items # <<>> THEN v.items[1]
    ELSE IF v.t = "str" /\ v.s # <<>> THEN Str(<<Head(v.s)>>)
    ELSE NoValue

\* content += v || '' for a string or a number v ('' and 0 are falsy).
ContentText(v) ==
    IF v.t = "str" THEN v.s
    ELSE IF v.t = "num" /\ v.s # <<"0">> THEN v.s
    ELSE <<>>

\* parsedData.choices[0]?.delta?.content || '' for the result r of
\* JSON.parse.  threw: JSON.parse raised a SyntaxError, or indexing an
\* undefined parsedData.choices a TypeError.
DeltaContent(r) ==
    IF ~r.ok \/ Member(r.val, <<"c", "h", "o", "i", "c", "e", "s">>).t = "none"
    THEN [threw |-> TRUE, content |-> <<>>]
    ELSE [threw |-> FALSE,
          content |->
              ContentText(
                  Member(Member(First(Member(r.val,
                                             <<"c", "h", "o", "i", "c", "e", "s">>)),
                                <<"d", "e", "l", "t", "a">>),
                         <<"c", "o", "n", "t", "e", "n", "t">>))]

ParseEvent(jsonLine) == DeltaContent(JSONParse(jsonLine))

\* What one line adds to content; the catch block only continues.
LineContent(line) ==
    IF StartsWith(line, DataPrefix)
    THEN LET jsonLine == Drop(line, 6)
         IN  IF jsonLine = DoneSentinel THEN <<>>
             ELSE ParseEvent(jsonLine).content
    ELSE <<>>

\* LinesContent with a fault: a line that fails to parse ends the fragment's loop.
RECURSIVE LinesContentStoppingAtError(_)
LinesContentStoppingAtError(lines) ==
    IF lines = <<>> THEN <<>>
    ELSE IF /\ StartsWith(Head(lines), DataPrefix)
            /\ Drop(Head(lines), 6) # DoneSentinel
            /\ ParseEvent(Drop(Head(lines), 6)).threw
         THEN <<>>
    ELSE LineContent(Head(lines)) \o LinesContentStoppingAtError(Tail(lines))

RECURSIVE LinesContent(_)
LinesContent(lines) ==
    IF lines = <<>> THEN <<>>
    ELSE LineContent(Head(lines)) \o LinesContent(Tail(lines))

\* new TextDecoder().decode(value): the fragment's lexemes as one text.
Decode(fragment) == Flatten(fragment)

ChunkContent(chunk) == LinesContent(SplitLines(chunk))

(***************************************************************************)
(* Progress: Math.min(Math.round((tokenCount / estimatedTokens) * 100),     *)
(* 100).  tokenCount and estimatedTokens are kept in quarters of a token    *)
(* (length / 4 is exact in binary floating point), so their quotient is     *)
(* the quotient of the lengths.  Math.round rounds half up; the quotient is *)
(* taken exactly, which differs from the double only at a tie, and a tie    *)
(* needs a source length divisible by 8.  A progress is a record: nan for   *)
(* NaN (0 / 0), else the integer n; x / 0 for x > 0 is Infinity, which the  *)
(* clamp turns into 100.                                                    *)
(***************************************************************************)
RoundDiv(n, d) == (2 * n + d) \div (2 * d)

MinOf(a, b) == IF a <= b THEN a ELSE b

\* Progress with a fault: the clamp at 100 is missing.
ProgressUnclamped(tokenQuarters, estimatedQuarters) ==
    IF estimatedQuarters = 0
    THEN IF tokenQuarters = 0 THEN [nan |-> TRUE, n |-> 0]
         ELSE [nan |-> FALSE, n |-> 100]
    ELSE [nan |-> FALSE, n |-> RoundDiv(100 * tokenQuarters, estimatedQuarters)]

Progress(tokenQuarters, estimatedQuarters) ==
    IF estimatedQuarters = 0
    THEN IF tokenQuarters = 0 THEN [nan |-> TRUE, n |-> 0]
         ELSE [nan |-> FALSE, n |-> 100]
    ELSE [nan |-> FALSE,
          n |-> MinOf(RoundDiv(100 * tokenQuarters, estimatedQuarters), 100)]

(***************************************************************************)
(* Errors.  cls is the constructor; every cls but "NonError" is an          *)
(* instance of Error.                                                      *)
(***************************************************************************)
Err(cls, name, message) == [cls |-> cls, name |-> name, message |-> message]

NoError == Err("none", "", "")

NewError(message) == Err("Error", "Error", message)

AbortError == Err("DOMException", "AbortError", "The user aborted a request.")

NetworkError == Err("TypeError", "TypeError", "Failed to fetch")

NonErrorThrowable == Err("NonError", "", "")

IsErrorInstance(e) == e.cls \in {"Error", "TypeError", "DOMException"}

IsAbortError(e) == e.cls = "DOMException" /\ e.name = "AbortError"

Statuses == {200, 401, 404, 429, 500}

ResponseOk(st) == st >= 200 /\ st <= 299

\* StatusError with a fault: 429 is not told apart.
StatusErrorWithout429(st) ==
    IF st = 401 THEN NewError("Invalid or expired API Key")
    ELSE NewError("API request failed with status " \o ToString(st))

StatusError(st) ==
    IF st = 401 THEN NewError("Invalid or expired API Key")
    ELSE IF st = 429 THEN NewError("API call limit reached")
    ELSE NewError("API request failed with status " \o ToString(st))

\* FormatError with a fault: the parser's diagnostic is dropped.
FormatErrorWithoutDiagnostic(diag) == NewError("Invalid translation result format")

FormatError(diag) == NewError("Invalid translation result format: " \o diag)

(***************************************************************************)
(* State.                                                                  *)
(***************************************************************************)
VARIABLES
    apiKey,        \* process.env.NEXT_PUBLIC_GEMINI_API_KEY is set
    apiUrl,        \* process.env.NEXT_PUBLIC_GEMINI_API_URL is set
    textLen,       \* text.length
    aborted,       \* signal.aborted
    pc,            \* "idle", "fetching", "reading", "done"
    requests,      \* fetch calls issued
    status,        \* response.status, 0 while there is no response
    wire,          \* response pieces sent and not yet read
    nEvents,       \* events sent
    sent,          \* history: the deltas sent, concatenated
    malformed,     \* history: an event sent carried no well-formed delta
    torn,          \* history: a fragment ended inside an event line
    fullContent,
    tokenCount,    \* in quarters of a token
    progress,      \* the last value passed to onProgress
    streamed,      \* the last value passed to onStream
    calls,         \* the callbacks the call's latest step invoked, in order
    thrown,        \* the error that reached the outer catch
    exit,          \* history: where the call ended: "config", "fetch", "status",
                   \* "body", "read", "validation" (the final parse failed), "return"
    outcome,       \* "pending", "resolved", "rejected"
    value,         \* the string the call resolved to
    error          \* the error the call rejected with

vars ==
    <<apiKey, apiUrl, textLen, aborted, pc, requests, status, wire, nEvents, sent,
      malformed, torn, fullContent, tokenCount, progress, streamed, calls, thrown,
      exit, outcome, value, error>>

env == <<apiKey, apiUrl, textLen>>

stream == <<wire, nEvents, sent, malformed, torn>>

loop == <<fullContent, tokenCount, progress, streamed>>

result == <<thrown, outcome, value, error>>


Init ==
    /\ apiKey \in BOOLEAN
    /\ apiUrl \in BOOLEAN
    /\ textLen \in 0..MaxTextLen
    /\ aborted = FALSE
    /\ pc = "idle"
    /\ requests = 0
    /\ status = 0
    /\ wire = <<>>
    /\ nEvents = 0
    /\ sent = <<>>
    /\ malformed = FALSE
    /\ torn = FALSE
    /\ fullContent = <<>>
    /\ tokenCount = 0
    /\ progress = [nan |-> FALSE, n |-> 0]
    /\ streamed = <<>>
    /\ calls = <<>>
    /\ thrown = NoError
    /\ exit = ""
    /\ outcome = "pending"
    /\ value = <<>>
    /\ error = NoError

OnProgress(p) == [cb |-> "onProgress", progress |-> p, text |-> <<>>]

OnStream(t) == [cb |-> "onStream", progress |-> [nan |-> FALSE, n |-> 0], text |-> t]

\* Callbacks with a fault: onStream is invoked before onProgress.
CallbacksStreamFirst(p, t) == <<OnStream(t), OnProgress(p)>>

\* onProgress?.(progress); onStream?.(fullContent);
Callbacks(p, t) == <<OnProgress(p), OnStream(t)>>

\* The call rejects with e.
Rejects(e) ==
    /\ outcome' = "rejected"
    /\ error' = e
    /\ value' = <<>>

\* The call resolves to t.
Resolves(t) ==
    /\ outcome' = "resolved"
    /\ value' = t
    /\ error' = NoError

\* Catch with a fault: signal.aborted is not consulted.
CatchIgnoringSignal(e) ==
    /\ thrown' = e
    /\ IF IsAbortError(e) THEN Resolves(<<>>)
       ELSE IF IsErrorInstance(e) THEN Rejects(e)
       ELSE Rejects(NewError("Unknown error occurred"))

\* Catch with a fault: what is not an Error is swallowed.
CatchSwallowingNonErrors(e) ==
    /\ thrown' = e
    /\ IF aborted \/ IsAbortError(e) THEN Resolves(<<>>)
       ELSE IF IsErrorInstance(e) THEN Rejects(e)
       ELSE Resolves(<<>>)

\* The outer catch block.
Catch(e) ==
    /\ thrown' = e
    /\ IF aborted \/ IsAbortError(e) THEN Resolves(<<>>)
       ELSE IF IsErrorInstance(e) THEN Rejects(e)
       ELSE Rejects(NewError("Unknown error occurred"))

\* The caller aborts the signal before the call or at one of its awaits.  What
\* the pending fetch or read then does is left to the environment: it may
\* reject with an AbortError, or settle as if it had completed first.
Abort ==
    /\ pc \in {"idle", "fetching", "reading"}
    /\ ~aborted
    /\ aborted' = TRUE
    /\ UNCHANGED <<env, pc, requests, status, stream, loop, calls, exit, result>>

\* Call with a fault: API_URL is not checked before the fetch call.
CallWithoutUrlCheck ==
    /\ pc = "idle"
    /\ IF ~apiKey
       THEN /\ Rejects(NewError("API_KEY not configured"))
            /\ pc' = "done"
            /\ exit' = "config"
            /\ UNCHANGED <<requests, thrown>>
       ELSE /\ requests' = requests + 1
            /\ pc' = "fetching"
            /\ UNCHANGED <<exit, result>>
    /\ calls' = <<>>
    /\ UNCHANGED <<env, aborted, status, stream, loop>>

\* translate() up to its first await: the configuration checks, outside the
\* try block, then the fetch call.
Call ==
    /\ pc = "idle"
    /\ IF ~apiKey
       THEN /\ Rejects(NewError("API_KEY not configured"))
            /\ pc' = "done"
            /\ exit' = "config"
            /\ UNCHANGED <<requests, thrown>>
       ELSE IF ~apiUrl
       THEN /\ Rejects(NewError("API_URL not configured"))
            /\ pc' = "done"
            /\ exit' = "config"
            /\ UNCHANGED <<requests, thrown>>
       ELSE /\ requests' = requests + 1
            /\ pc' = "fetching"
            /\ UNCHANGED <<exit, result>>
    /\ calls' = <<>>
    /\ UNCHANGED <<env, aborted, status, stream, loop>>

\* await fetch(...) rejects.
FetchRejects(e) ==
    /\ pc = "fetching"
    /\ Catch(e)
    /\ pc' = "done"
    /\ exit' = "fetch"
    /\ calls' = <<>>
    /\ UNCHANGED <<env, aborted, requests, status, stream, loop>>

\* await fetch(...) resolves: the status check and getReader().
FetchResolves(st, hasBody) ==
    /\ pc = "fetching"
    /\ status' = st
    /\ IF ~ResponseOk(st)
       THEN Catch(StatusError(st)) /\ pc' = "done" /\ exit' = "status"
       ELSE IF ~hasBody
       THEN Catch(NewError("Stream not supported")) /\ pc' = "done" /\ exit' = "body"
       ELSE pc' = "reading" /\ UNCHANGED <<exit, result>>
    /\ calls' = <<>>
    /\ UNCHANGED <<env, aborted, requests, stream, loop>>

\* The endpoint sends one more event line.
ServerSend(e) ==
    /\ pc = "reading"
    /\ nEvents < MaxEvents
    /\ wire' = wire \o EventLine(e)
    /\ nEvents' = nEvents + 1
    /\ sent' = sent \o e.d
    /\ malformed' = (malformed \/ e.k \in {"malformed", "nocontent", "nochoices"})
    /\ UNCHANGED <<env, aborted, pc, requests, status, torn, loop, calls, exit, result>>

\* One iteration of the loop: reader.read() yields the first k lexemes in
\* flight, for any k.
ReadFragment ==
    /\ pc = "reading"
    /\ \E k \in 1..Len(wire) :
           LET content == ChunkContent(Decode(SubSeq(wire, 1, k)))
           IN  /\ wire' = Drop(wire, k)
               /\ torn' = (torn \/ wire[k] = DataPrefix)
               /\ fullContent' = fullContent \o content
               /\ tokenCount' = tokenCount + Len(content)
    /\ progress' = Progress(tokenCount', textLen)
    /\ streamed' = fullContent'
    /\ calls' = Callbacks(progress', fullContent')
    /\ UNCHANGED <<env, aborted, pc, requests, status, nEvents, sent, malformed, exit,
                   result>>

\* The endpoint has ended the body and all of it was read: reader.read()
\* yields done; cleanup, validation, return.
ReadDone ==
    /\ pc = "reading"
    /\ wire = <<>>
    /\ LET cleaned == cleanJsonString(fullContent)
           r == JSONParse(cleaned)
       IN  IF r.ok
           THEN /\ fullContent' = JSONStringify2(r.val)
                /\ Resolves(fullContent')
                /\ thrown' = NoError
                /\ exit' = "return"
           ELSE /\ fullContent' = cleaned
                /\ IF aborted THEN Resolves(<<>>) /\ thrown' = NoError
                   ELSE Catch(FormatError(r.diag))
                /\ exit' = "validation"
    /\ pc' = "done"
    /\ calls' = <<>>
    /\ UNCHANGED <<env, aborted, requests, status, stream, tokenCount, progress,
                   streamed>>

\* await reader.read() rejects: the body stream is errored, which discards
\* what it had queued.
ReadRejects(e) ==
    /\ pc = "reading"
    /\ Catch(e)
    /\ pc' = "done"
    /\ exit' = "read"
    /\ calls' = <<>>
    /\ wire' = <<>>
    /\ UNCHANGED <<env, aborted, requests, status, nEvents, sent, malformed, torn,
                   loop>>

Next ==
    \/ Abort
    \/ Call
    \/ \E e \in {AbortError, NetworkError, NonErrorThrowable} : FetchRejects(e)
    \/ \E st \in Statuses, hasBody \in BOOLEAN : FetchResolves(st, hasBody)
    \/ \E e \in Events : ServerSend(e)
    \/ ReadFragment
    \/ ReadDone
    \/ \E e \in {AbortError, NetworkError} : ReadRejects(e)

Spec == Init /\ [][Next]_vars

(***************************************************************************)
(* Claims.                                                                 *)
(***************************************************************************)
\* The signal is aborted only while the call is pending, so in a call that
\* has ended, aborted says that the signal was aborted before the call ended.
Ended == pc = "done"

ResolvedTo(t) == outcome = "resolved" /\ value = t

RejectedWith(message) == outcome = "rejected" /\ error.message = message

IsPrefix(p, s) == StartsWith(s, p)

\* The step reads a fragment from the stream.
ReadStep == pc = "reading" /\ pc' = "reading" /\ Len(wire') < Len(wire)

\* The raw accumulated buffer when the stream ended: the last value passed to
\* onStream, or the empty text when no fragment was read.
RawBuffer == streamed

\* C1 as stated: a call whose signal was aborted before it ended resolves to
\* the empty string and never rejects, whatever else happens in the call.
C1_AbortAlwaysResolvesEmpty == (Ended /\ aborted) => ResolvedTo(<<>>)

\* C1 as amended: with the API key and URL configured, a call whose signal
\* was aborted before it ended never rejects; it resolves to the empty string
\* whenever anything in it failed, and to the serialized JSON only when the
\* stream was still read to its end and its cleaned buffer parsed.
C1_AbortNeverRejectsOnceConfigured ==
    (Ended /\ aborted /\ apiKey /\ apiUrl)
        => /\ outcome = "resolved"
           /\ value # <<>> => /\ exit = "return"
                              /\ JSONParse(cleanJsonString(RawBuffer)).ok

C1_Witness ==
    /\ Ended /\ aborted /\ apiKey /\ apiUrl
    /\ exit = "read"
    /\ thrown = NetworkError
    /\ ResolvedTo(<<>>)

\* C2 as stated: when the stream completes without cancellation and every
\* event line carries a well-formed delta, the call returns the 2-space
\* serialization of the JSON value parsed from the concatenation of the
\* deltas sent, however the transport cuts the body into fragments.
C2_ReturnsSerializedConcatenation ==
    (/\ exit \in {"return", "validation"}
     /\ ~aborted
     /\ ~malformed
     /\ JSONParse(sent).ok)
        => ResolvedTo(JSONStringify2(JSONParse(sent).val))

\* C3: with a non-empty source text, every value passed to onProgress is an
\* integer in 0..100 and is no less than the value passed before it.
C3_ProgressMonotoneInRange ==
    [][(ReadStep /\ textLen > 0)
           => /\ calls' # <<>>
              /\ calls'[1].cb = "onProgress"
              /\ ~calls'[1].progress.nan
              /\ calls'[1].progress.n \in 0..100
              /\ calls'[1].progress.n >= progress.n]_vars

\* Deltas longer than the source were accumulated and the value was clamped.
C3_Witness ==
    /\ textLen > 0
    /\ calls # <<>>
    /\ tokenCount > textLen
    /\ calls[1].progress.n = 100

\* C4 as stated: a non-success status always makes the call reject.
C4_StatusAlwaysRejects == exit = "status" => outcome = "rejected"

\* C4 as amended: on a non-success status, a call whose signal is not aborted
\* rejects with the authentication error for 401, the rate-limit error for
\* 429 and the request-failure error naming the status otherwise; a call
\* whose signal is aborted resolves to the empty string; in both cases no
\* fragment is read and no callback is invoked.
C4_StatusRejectsUnlessAborted ==
    exit = "status"
        => /\ ~ResponseOk(status)
           /\ IF aborted THEN ResolvedTo(<<>>)
              ELSE CASE status = 401 -> RejectedWith("Invalid or expired API Key")
                     [] status = 429 -> RejectedWith("API call limit reached")
                     [] OTHER ->
                            RejectedWith("API request failed with status "
                                             \o ToString(status))
           /\ calls = <<>>
           /\ streamed = <<>>
           /\ fullContent = <<>>
           /\ tokenCount = 0

C4_Witness == exit = "status" /\ status = 429 /\ ~aborted /\ outcome = "rejected"

\* C5: when the cleaned buffer is not valid JSON at the end of the stream, the
\* call rejects with 'Invalid translation result format: ' and the parser's
\* diagnostic if the signal is not aborted, and resolves to the empty string
\* if it is; validation fails the call only when it is not cancelled.
C5_FormatErrorUnlessAborted ==
    exit = "validation"
        => /\ ~JSONParse(cleanJsonString(RawBuffer)).ok
           /\ IF aborted THEN ResolvedTo(<<>>)
              ELSE RejectedWith("Invalid translation result format: "
                                    \o JSONParse(cleanJsonString(RawBuffer)).diag)

C5_Witness ==
    /\ exit = "validation"
    /\ ~aborted
    /\ RawBuffer = <<"o", "k">>
    /\ RejectedWith("Invalid translation result format: "
                        \o "Unexpected token o in JSON at position 0")

\* C6: with the API key or the API URL missing, the call fails with the
\* configuration error naming the missing value, before any request is
\* issued and any callback invoked, whatever the other inputs.
C6_ConfigurationErrorFirst ==
    (pc # "idle" /\ (~apiKey \/ ~apiUrl))
        => /\ exit = "config"
           /\ RejectedWith(IF ~apiKey THEN "API_KEY not configured"
                           ELSE "API_URL not configured")
           /\ requests = 0
           /\ calls = <<>>

C6_Witness ==
    /\ apiKey /\ ~apiUrl /\ aborted
    /\ RejectedWith("API_URL not configured")

\* C7: a data line that is not valid JSON or carries no content, and the
\* [DONE] line, add nothing and stop nothing: once every line sent has been
\* read, whole, the buffer is the deltas of the other lines in order.
C7_MalformedLinesSkipped ==
    (pc = "reading" /\ wire = <<>> /\ ~torn) => fullContent = sent

\* A malformed line was sent and skipped, and the delta "ok" accumulated.
C7_Witness ==
    /\ pc = "reading" /\ wire = <<>> /\ ~torn
    /\ malformed
    /\ nEvents = 2
    /\ fullContent = <<"o", "k">>

\* Every fence marker removed, wherever it sits, and the rest trimmed.
RECURSIVE WithoutFenceMarkers(_)
WithoutFenceMarkers(s) ==
    IF s = <<>> THEN <<>>
    ELSE IF StartsWith(s, Fence \o <<"j", "s", "o", "n">>)
         THEN WithoutFenceMarkers(Drop(s, 7))
    ELSE IF StartsWith(s, Fence) THEN WithoutFenceMarkers(Drop(s, 3))
    ELSE <<Head(s)>> \o WithoutFenceMarkers(Tail(s))

\* C8 as stated: a buffer that is a JSON document once its fence markers are
\* removed and it is trimmed parses, wherever the markers sit: the call
\* returns the serialization of that document.
C8_FencesStrippedAnywhere ==
    (/\ exit \in {"return", "validation"}
     /\ ~aborted
     /\ JSONParse(Trim(WithoutFenceMarkers(RawBuffer))).ok)
        => ResolvedTo(JSONStringify2(JSONParse(Trim(WithoutFenceMarkers(RawBuffer))).val))

\* C9: each fragment read invokes onProgress once and then onStream once, with
\* the buffer that holds the fragment's deltas; the buffer only grows, so
\* each value passed to onStream extends the one before; no other step
\* invokes a callback, and none is invoked once the call has ended.
C9_CallbacksPerFragment ==
    [][/\ ReadStep
           => /\ calls' = <<OnProgress(progress'), OnStream(fullContent')>>
              /\ streamed' = fullContent'
              /\ IsPrefix(fullContent, fullContent')
              /\ IsPrefix(streamed, streamed')
       /\ ~ReadStep => /\ calls' = <<>> \/ calls' = calls
                       /\ streamed' = streamed
       /\ pc' = "done" => calls' = <<>>]_vars

\* A fragment with a delta was read while more of the body was in flight.
C9_Witness ==
    /\ pc = "reading"
    /\ calls # <<>>
    /\ calls[2].text = <<"o", "k">>
    /\ wire # <<>>

\* C10: the call resolves to the empty string only when the signal is aborted
\* or an AbortError was thrown; a completed call never resolves to it; and
\* every other failure of a call whose signal is not aborted is a rejection.
C10_EmptyStringMeansCancelled ==
    /\ ResolvedTo(<<>>) => aborted \/ IsAbortError(thrown)
    /\ exit = "return" => outcome = "resolved" /\ value # <<>>
    /\ (Ended /\ ~aborted /\ exit # "return" /\ ~IsAbortError(thrown))
           => outcome = "rejected"

C10_Witness ==
    /\ Ended /\ ~aborted
    /\ exit = "fetch"
    /\ thrown = NonErrorThrowable
    /\ RejectedWith("Unknown error occurred")
====
